---- MODULE Spec2Model ----
(***************************************************************************)
(* express-shopify-auth: the OAuth middleware of src/index.js.             *)
(*                                                                         *)
(* JavaScript strings are modelled as sequences of one-character strings,  *)
(* so that String.replace, substring, sort and the RegExp test are         *)
(* computed character by character.  A JavaScript value is a record        *)
(* [t |-> type, v |-> characters].                                         *)
(***************************************************************************)
EXTENDS Integers, Sequences, FiniteSets, TLC

(***************************************************************************)
(* JavaScript values                                                       *)
(***************************************************************************)
Str(s) == [t |-> "string", v |-> s]
Undefined == [t |-> "undefined", v |-> <<>>]
\* an Array value, as Express builds for a repeated query key
Arr == [t |-> "array", v |-> <<>>]

Null == [t |-> "null", v |-> <<>>]

\* ToBoolean: undefined, null and the empty string are falsy, objects are
\* truthy
Truthy(val) == /\ val.t \notin {"undefined", "null"}
               /\ val.t = "string" => val.v # <<>>

\* ===, on the values that occur: objects are equal by identity only
StrictEq(a, b) == /\ a.t = b.t
                  /\ a.t \in {"string", "undefined"}
                  /\ a.v = b.v

\* params[key]
Prop(obj, key) == IF key \in DOMAIN obj THEN obj[key] ELSE Undefined

\* the characters of the model in the order of their UTF-16 code units
Ascii == << " ", "#", "%", "&", "-", ".", "/",
            "0", "1", "2", "3", "4", "5", "6", "7", "8", "9",
            "=", "A", "B", "C", "D", "F", "S", "W", "_",
            "a", "b", "c", "d", "e", "f", "g", "h", "i", "j", "k", "l", "m",
            "n", "o", "p", "q", "r", "s", "t", "u", "v", "w", "x", "y", "z" >>

AsciiIndex == [c \in { Ascii[i] : i \in 1..Len(Ascii) } |->
                 CHOOSE i \in 1..Len(Ascii) : Ascii[i] = c]

CharCode(c) == AsciiIndex[c]

\* a < b as Array.prototype.sort compares strings without a comparator
RECURSIVE StrLess(_, _)
StrLess(a, b) ==
  IF a = <<>> THEN b # <<>>
  ELSE IF b = <<>> THEN FALSE
  ELSE IF Head(a) = Head(b) THEN StrLess(Tail(a), Tail(b))
  ELSE CharCode(Head(a)) < CharCode(Head(b))

\* Object.keys(...).sort() of a set of distinct keys
RECURSIVE SortKeys(_)
SortKeys(S) ==
  IF S = {} THEN <<>>
  ELSE LET m == CHOOSE k \in S : \A o \in S \ {k} : StrLess(k, o)
       IN <<m>> \o SortKeys(S \ {m})

\* String.prototype.replace(c, rep) with a string pattern: the first
\* occurrence only
RECURSIVE Replace(_, _, _)
Replace(s, c, rep) ==
  IF s = <<>> THEN <<>>
  ELSE IF Head(s) = c THEN rep \o Tail(s)
  ELSE <<Head(s)>> \o Replace(Tail(s), c, rep)

\* Array.prototype.join(sep) of an array of strings
RECURSIVE Join(_, _)
Join(parts, sep) ==
  IF parts = <<>> THEN <<>>
  ELSE IF Len(parts) = 1 THEN parts[1]
  ELSE parts[1] \o sep \o Join(Tail(parts), sep)

(***************************************************************************)
(* Module constants                                                        *)
(***************************************************************************)
DOMAIN_ == << "m", "y", "s", "h", "o", "p", "i", "f", "y", ".", "c", "o", "m" >>

\* the characters INVALID_CHAR_RE does not match: [0-9a-zA-Z.-]
ValidChars == { "0", "1", "2", "3", "4", "5", "6", "7", "8", "9",
                "A", "B", "C", "D", "F", "S", "W",
                "a", "b", "c", "d", "e", "f", "g", "h", "i", "j", "k", "l", "m",
                "n", "o", "p", "q", "r", "s", "t", "u", "v", "w", "x", "y", "z",
                ".", "-" }

INVALID_CHAR_RE_test(s) == \E i \in 1..Len(s) : s[i] \notin ValidChars

K_hmac == << "h", "m", "a", "c" >>
K_signature == << "s", "i", "g", "n", "a", "t", "u", "r", "e" >>
K_code == << "c", "o", "d", "e" >>
K_timestamp == << "t", "i", "m", "e", "s", "t", "a", "m", "p" >>
K_state == << "s", "t", "a", "t", "e" >>
K_shop == << "s", "h", "o", "p" >>

(***************************************************************************)
(* crypto.createHmac('sha256', key).update(message).digest('hex')          *)
(* The digest is modelled as an injective function of (key, message): the  *)
(* keys of the model hold no "#".                                          *)
(***************************************************************************)
HmacDigest(key, message) == <<"#">> \o key \o <<"#">> \o message

(***************************************************************************)
(* ShopifyAuth.checkIntegrity                                              *)
(***************************************************************************)
SignedKeys(params) ==
  SortKeys({ key \in DOMAIN params : key # K_hmac /\ key # K_signature })

EscapedKey(key) ==
  Replace(Replace(Replace(key, "%", <<"%", "2", "5">>),
                  "&", <<"%", "2", "6">>),
          "=", <<"%", "3", "D">>)

EscapedVal(val) ==
  Replace(Replace(val, "%", <<"%", "2", "5">>), "&", <<"%", "2", "6">>)

IntegrityMessage(params) ==
  LET keys == SignedKeys(params)
  IN Join([i \in 1..Len(keys) |->
             EscapedKey(keys[i]) \o <<"=">> \o EscapedVal(params[keys[i]].v)],
          <<"&">>)

\* params[key].replace is not a function when the value is no string
IntegrityThrows(params) ==
  \E key \in DOMAIN params :
    /\ key # K_hmac /\ key # K_signature
    /\ params[key].t # "string"

\* the value returned when no TypeError is raised
checkIntegrity(appSecret, params) ==
  LET hmac == Prop(params, K_hmac)
      ourSignature == Str(HmacDigest(appSecret, IntegrityMessage(params)))
  IN StrictEq(ourSignature, hmac)

(***************************************************************************)
(* ShopifyAuth.checkShopHostname                                           *)
(***************************************************************************)
Substring(s, start) ==
  LET from == IF start < 0 THEN 0 ELSE start
  IN SubSeq(s, from + 1, Len(s))

\* a hostname check that looks at the ending only
checkShopHostname_SuffixOnly(hostname) ==
  Substring(hostname, Len(hostname) - Len(DOMAIN_)) = DOMAIN_

checkShopHostname(hostname) ==
  LET hasInvalidChar == INVALID_CHAR_RE_test(hostname)
      hasRightDomain == Substring(hostname, Len(hostname) - Len(DOMAIN_)) = DOMAIN_
  IN ~hasInvalidChar /\ hasRightDomain

(***************************************************************************)
(* The options of ShopifyAuth.create (after tests/index.js defaultOptions) *)
(***************************************************************************)
appKey == << "k" >>
appSecret == << "S" >>
wrongSecret == << "W" >>
baseUrl == "http://localhost:8000"
authPath == "/auth"
authCallbackPath == "/auth/callback"
authSuccessUrl == "/success"
authFailUrl == "/fail"
otherPath == "/other"
scope == << << "r", "_", "p" >>, << "w", "_", "p" >> >>
overrideUrl == "http://localhost:8000/some/other/callback"

\* the optional members: is an onPermission hook given, is an onError hook
\* given (when not, create installs the default one), and options.redirectUrl;
\* the four configurations are those of the tests
Options ==
  { [onPermission |-> FALSE, onError |-> FALSE, redirectUrl |-> ""],
    [onPermission |-> TRUE, onError |-> FALSE, redirectUrl |-> ""],
    [onPermission |-> TRUE, onError |-> TRUE, redirectUrl |-> ""],
    [onPermission |-> TRUE, onError |-> TRUE, redirectUrl |-> overrideUrl] }

(***************************************************************************)
(* Errors: [t |-> "Error", v |-> the message, in pieces]                   *)
(***************************************************************************)
Error(message) == [t |-> "Error", v |-> message]

\* the error values the collaborators hand to their callbacks
shopResolveError == Error(<< "shop resolver failed" >>)
theError == Error(<< "some error in onAuth()" >>)
transportError == Error(<< "ECONNREFUSED" >>)
syntaxError == [t |-> "SyntaxError", v |-> << "Unexpected token" >>]

paramErr(params) ==
  Error(<< "ShopifyAuth: missing required query parameters (got " >>
        \o Join(SortKeys(DOMAIN params), << "," >>) \o << ")" >>)
stateErr == Error(<< "ShopifyAuth: state not found in cache" >>)
integrityErr == Error(<< "ShopifyAuth: integrity error (signature mismatch)" >>)
hostnameErr(shop) ==
  Error(<< "ShopifyAuth: invalid shop hostname " >> \o shop)
noTokenErr == Error(<< "no access token supplied by shopify" >>)

(***************************************************************************)
(* url.format and url.resolve.  A URL is kept as the record of its parts;  *)
(* a URL given as one string (authSuccessUrl, authFailUrl) is its href.    *)
(***************************************************************************)
Href(s) == [protocol |-> "", host |-> <<>>, pathname |-> s, query |-> <<>>]

\* url.resolve(from, to) for an absolute path `to` and a `from` without path
urlResolve(from, to) == from \o to

\* an authorize URL whose redirect_uri is the start path
authorizeUrl_StartPath(shop, nonce) ==
  [ protocol |-> "https",
    host |-> shop,
    pathname |-> "/admin/oauth/authorize",
    query |-> [ client_id |-> appKey,
                scope |-> Join(scope, << "," >>),
                redirect_uri |-> urlResolve(baseUrl, authPath),
                state |-> nonce ] ]

\* an authorize URL that carries the client secret next to the client id
authorizeUrl_WithSecret(shop, nonce) ==
  [ protocol |-> "https",
    host |-> shop,
    pathname |-> "/admin/oauth/authorize",
    query |-> [ client_id |-> appKey,
                client_secret |-> appSecret,
                scope |-> Join(scope, << "," >>),
                redirect_uri |-> urlResolve(baseUrl, authCallbackPath),
                state |-> nonce ] ]

authorizeUrl(shop, nonce) ==
  [ protocol |-> "https",
    host |-> shop,
    pathname |-> "/admin/oauth/authorize",
    query |-> [ client_id |-> appKey,
                scope |-> Join(scope, << "," >>),
                redirect_uri |-> urlResolve(baseUrl, authCallbackPath),
                state |-> nonce ] ]

(***************************************************************************)
(* The LRU cache of create: entries [key, value, age], most recently used  *)
(* first.  age is Date.now() - hit.now, in ticks of the clock; max and     *)
(* maxAge are scaled down from 5000 entries and 5 minutes.                 *)
(***************************************************************************)
Max == 2
MaxAge == 1

CacheHas(c, key) == \E i \in 1..Len(c) : c[i].key = key
CacheIndex(c, key) == CHOOSE i \in 1..Len(c) : c[i].key = key
CacheWithout(c, key) == SelectSeq(c, LAMBDA e : e.key # key)

IsStale(entry) == entry.age > MaxAge

\* a cache.set that adds an entry and leaves an older one of the key in place
CacheSet_KeepsOld(c, key, value) ==
  LET put == << [key |-> key, value |-> value, age |-> 0] >> \o c
  IN IF Len(put) > Max THEN SubSeq(put, 1, Max) ELSE put

\* a cache.set that never drops an entry
CacheSet_NoEviction(c, key, value) ==
  << [key |-> key, value |-> value, age |-> 0] >> \o CacheWithout(c, key)

\* cache.set(key, value): the entry becomes the most recently used one and
\* the least recently used entries beyond max are dropped
CacheSet(c, key, value) ==
  LET put == << [key |-> key, value |-> value, age |-> 0] >> \o CacheWithout(c, key)
  IN IF Len(put) > Max THEN SubSeq(put, 1, Max) ELSE put

\* a get that returns the most recently stored value, whatever the key
CacheGet_MostRecent(c, key) ==
  IF key.t # "string" \/ c = <<>> THEN Undefined
  ELSE IF IsStale(c[1]) THEN Undefined ELSE Str(c[1].value)

\* the value cache.get(key) returns
CacheGet(c, key) ==
  IF key.t # "string" \/ ~CacheHas(c, key.v) THEN Undefined
  ELSE LET hit == c[CacheIndex(c, key.v)]
       IN IF IsStale(hit) THEN Undefined ELSE Str(hit.value)

\* the cache after cache.get(key): a stale hit is deleted, a fresh one
\* becomes the most recently used
CacheAfterGet(c, key) ==
  IF key.t # "string" \/ ~CacheHas(c, key.v) THEN c
  ELSE LET hit == c[CacheIndex(c, key.v)]
       IN IF IsStale(hit) THEN CacheWithout(c, key.v)
          ELSE << hit >> \o CacheWithout(c, key.v)

\* the clock advances by one tick: every entry is one tick older (an age
\* beyond maxAge is stale whatever its amount)
CacheTick(c) ==
  [i \in 1..Len(c) |->
     [c[i] EXCEPT !.age = IF @ > MaxAge THEN @ ELSE @ + 1]]

(***************************************************************************)
(* JSON.parse, on bodies given as their tokens: an object is                *)
(* "{" "access_token" ":" characters... "}" or "{" "}"                      *)
(***************************************************************************)
Object(access_token) == [t |-> "object", v |-> <<>>, access_token |-> access_token]

JSONparseThrows(text) ==
  ~(Len(text) >= 2 /\ text[1] = "{" /\ text[Len(text)] = "}")

JSONparse(text) ==
  IF Len(text) >= 4 /\ text[2] = "access_token" /\ text[3] = ":"
  THEN Object(Str(SubSeq(text, 4, Len(text) - 1)))
  ELSE Object(Undefined)

(***************************************************************************)
(* The state: the options create was called with, the cache of its         *)
(* closure, and the requests in progress.  A request holds the locals its  *)
(* callbacks close over and what the collaborators observed of it.         *)
(***************************************************************************)
VARIABLES options, cache, req

vars == << options, cache, req >>

\* the requests the server is handling or has handled last
Reqs == DOMAIN req

NewRequest(path, query) ==
  [ pc |-> "idle", path |-> path, query |-> query,
    shop |-> <<>>, nonce |-> <<>>, redirectUrl |-> Href(""),
    shopErr |-> Undefined, thrown |-> "",
    steps |-> <<>>, shopCalls |-> 0, shopReplies |-> <<>>, nextArgs |-> <<>>,
    onPermissionArgs |-> <<>>, onAuthArgs |-> <<>>, onErrorArgs |-> <<>>,
    cbArgs |-> <<>>, doneArgs |-> <<>>, posts |-> <<>>, postReplies |-> <<>>, redirects |-> <<>>, logged |-> <<>> ]

Step(r, name) == [r EXCEPT !.steps = Append(@, name)]

\* res.redirect(url)
Redirect(r, url) ==
  [Step(r, "redirect") EXCEPT !.redirects = Append(@, url)]

(***************************************************************************)
(* The default onError of create                                           *)
(***************************************************************************)
\* a default error hook that logs and leaves the response open
DefaultOnError_NoRedirect(r, err) ==
  IF err.t \in {"undefined", "null"}
  THEN [r EXCEPT !.pc = "threw", !.thrown = "TypeError"]
  ELSE [Step(r, "console.error") EXCEPT !.logged = Append(@, err), !.pc = "failed"]

DefaultOnError(r, err) ==
  IF err.t \in {"undefined", "null"}
  THEN \* err.stack of undefined: a TypeError
       [r EXCEPT !.pc = "threw", !.thrown = "TypeError"]
  ELSE [Redirect([Step(r, "console.error") EXCEPT !.logged = Append(@, err)],
                 Href(authFailUrl))
          EXCEPT !.pc = "failed"]

\* middleware.onError(err, req, res, next); a hook given in the options
\* is observed and writes no response
OnError(opts, r, err) ==
  LET called == [Step(r, "onError") EXCEPT
                   !.onErrorArgs = Append(@, << err, "req", "res", "next" >>)]
  IN IF opts.onError THEN [called EXCEPT !.pc = "failed"]
     ELSE DefaultOnError(called, err)

(***************************************************************************)
(* The start branch of the middleware                                      *)
(***************************************************************************)
\* the callback given to middleware.shop
ShopCallback(opts, c, r0, err, shop, nonce) ==
  LET r == [r0 EXCEPT !.shopReplies = Append(@, << err, shop >>)]
  IN
  IF Truthy(err) THEN [req |-> OnError(opts, r, err), cache |-> c]
  ELSE LET redirectUrl == authorizeUrl(shop, nonce)
           stored == [Step(r, "cache.set") EXCEPT
                        !.shop = shop, !.nonce = nonce, !.redirectUrl = redirectUrl]
       IN [ req |-> IF ~opts.onPermission
                    THEN [Redirect(stored, redirectUrl) EXCEPT !.pc = "redirected"]
                    ELSE [Step(stored, "onPermission") EXCEPT
                            !.onPermissionArgs =
                               Append(@, << shop, redirectUrl, "proceed" >>),
                            !.pc = "permission"],
            cache |-> CacheSet(c, shop, nonce) ]

\* a proceed function that builds the URL again, with a new state
PermissionCallback_NewUrl(r) ==
  [Redirect(Step(r, "proceed"), authorizeUrl(r.shop, <<>>)) EXCEPT !.pc = "redirected"]

\* the function given to onPermission
PermissionCallback(r) ==
  [Redirect(Step(r, "proceed"), r.redirectUrl) EXCEPT !.pc = "redirected"]

(***************************************************************************)
(* ShopifyAuth.exchangeCodeForToken                                        *)
(***************************************************************************)
PostOpts(exchangeOptions) ==
  [ url |-> [ protocol |-> "https", host |-> exchangeOptions.shopDomain,
              pathname |-> "/admin/oauth/access_token", query |-> <<>> ],
    form |-> [ client_id |-> exchangeOptions.appKey,
               client_secret |-> exchangeOptions.appSecret,
               code |-> exchangeOptions.code ] ]

\* the callback given to request.post: the calls of cb it makes, each as its
\* argument list, and the exception it raises (next is not defined there)
PostCallback(err, body) ==
  IF Truthy(err) THEN [thrown |-> "ReferenceError", cb |-> <<>>]
  ELSE IF body.t = "string" /\ JSONparseThrows(body.v)
  THEN [thrown |-> "", cb |-> << << syntaxError >> >>]
  ELSE LET parsed == IF body.t = "string" THEN JSONparse(body.v) ELSE body
       IN IF ~Truthy(parsed.access_token)
          THEN [thrown |-> "", cb |-> << << noTokenErr >> >>]
          ELSE [thrown |-> "", cb |-> << << Null, parsed.access_token >> >>]

(***************************************************************************)
(* The callback branch of the middleware                                   *)
(***************************************************************************)
HasRequired(params) ==
  /\ Truthy(Prop(params, K_code))
  /\ Truthy(Prop(params, K_hmac))
  /\ Truthy(Prop(params, K_timestamp))
  /\ Truthy(Prop(params, K_state))
  /\ Truthy(Prop(params, K_shop))

\* a state check that lets a shop without a cache entry through
StateMatches_AbsentPasses(c, params) ==
  \/ CacheGet(c, Prop(params, K_shop)).t = "undefined"
  \/ StrictEq(CacheGet(c, Prop(params, K_shop)), Prop(params, K_state))

StateMatches(c, params) ==
  StrictEq(CacheGet(c, Prop(params, K_shop)), Prop(params, K_state))

ExchangeOptions(params) ==
  [ appKey |-> appKey, appSecret |-> appSecret,
    code |-> Prop(params, K_code), shopDomain |-> Prop(params, K_shop).v ]

\* the checks made before the callback returns
CallbackBranch(opts, c, r) ==
  LET params == r.query
      read == CacheAfterGet(c, Prop(params, K_shop))
      r1 == Step(r, "params")
      r2 == Step(r1, "cache.get")
      r3 == Step(r2, "checkIntegrity")
      r4 == Step(r3, "checkShopHostname")
  IN IF ~HasRequired(params)
     THEN [req |-> OnError(opts, r1, paramErr(params)), cache |-> c]
     ELSE IF ~StateMatches(c, params)
     THEN [req |-> OnError(opts, r2, stateErr), cache |-> read]
     ELSE IF IntegrityThrows(params)
     THEN [req |-> [r3 EXCEPT !.pc = "threw", !.thrown = "TypeError"], cache |-> read]
     ELSE IF ~checkIntegrity(appSecret, params)
     THEN [req |-> OnError(opts, r3, integrityErr), cache |-> read]
     ELSE IF ~checkShopHostname(Prop(params, K_shop).v)
     THEN LET shopErr == hostnameErr(Prop(params, K_shop).v)
          IN [req |-> OnError(opts, [r4 EXCEPT !.shopErr = shopErr], shopErr),
              cache |-> read]
     ELSE [req |-> [Step(r4, "post") EXCEPT
                      !.posts = Append(@, PostOpts(ExchangeOptions(params))),
                      !.pc = "post"],
           cache |-> read]

\* a done callback that does not look at err
AuthCallback_ErrIgnored(opts, r, err) ==
  [Redirect([Step(r, "done") EXCEPT !.doneArgs = Append(@, << err >>)],
            Href(authSuccessUrl))
     EXCEPT !.pc = "succeeded"]

\* a done callback that redirects to options.redirectUrl when it is set
AuthCallback_Override(opts, r, err) ==
  LET r1 == [Step(r, "done") EXCEPT !.doneArgs = Append(@, << err >>)]
  IN IF Truthy(err) THEN OnError(opts, r1, err)
     ELSE [Redirect(r1, Href(IF opts.redirectUrl # "" THEN opts.redirectUrl
                             ELSE authSuccessUrl))
             EXCEPT !.pc = "succeeded"]

\* the function given to onAuth
AuthCallback(opts, r, err) ==
  LET r1 == [Step(r, "done") EXCEPT !.doneArgs = Append(@, << err >>)]
  IN IF Truthy(err) THEN OnError(opts, r1, err)
     ELSE [Redirect(r1, Href(authSuccessUrl)) EXCEPT !.pc = "succeeded"]

\* an exchange callback that hands onAuth its first argument as the token
ExchangeCallback_WrongToken(opts, r, args) ==
  LET err == args[1]
      r1 == [Step(r, "cb") EXCEPT !.cbArgs = Append(@, args)]
  IN IF Truthy(err) THEN OnError(opts, r1, r1.shopErr)
     ELSE [Step(r1, "onAuth") EXCEPT
             !.onAuthArgs = Append(@, << "req", "res", Prop(r.query, K_shop).v,
                                         err, "done" >>),
             !.pc = "onAuth"]

\* the callback given to exchangeCodeForToken
ExchangeCallback(opts, r, args) ==
  LET err == args[1]
      accessToken == IF Len(args) >= 2 THEN args[2] ELSE Undefined
      r1 == [Step(r, "cb") EXCEPT !.cbArgs = Append(@, args)]
  IN IF Truthy(err) THEN OnError(opts, r1, r1.shopErr)
     ELSE [Step(r1, "onAuth") EXCEPT
             !.onAuthArgs = Append(@, << "req", "res", Prop(r.query, K_shop).v,
                                         accessToken, "done" >>),
             !.pc = "onAuth"]

(***************************************************************************)
(* The middleware function: what it does before it returns                 *)
(***************************************************************************)
\* a dispatch that takes every path but authPath for the callback path
Middleware_NoPassThrough(opts, c, r) ==
  IF r.path = authPath
  THEN [req |-> [Step(r, "shop") EXCEPT !.shopCalls = @ + 1, !.pc = "shop"],
        cache |-> c]
  ELSE CallbackBranch(opts, c, r)

Middleware(opts, c, r) ==
  IF r.path # authPath /\ r.path # authCallbackPath
  THEN [req |-> [Step(r, "next") EXCEPT !.nextArgs = Append(@, <<>>),
                                       !.pc = "passed"],
        cache |-> c]
  ELSE IF r.path = authPath
  THEN [req |-> [Step(r, "shop") EXCEPT !.shopCalls = @ + 1, !.pc = "shop"],
        cache |-> c]
  ELSE CallbackBranch(opts, c, r)

(***************************************************************************)
(* The inputs: shops, nonces, queries and the replies of the collaborators *)
(***************************************************************************)
ShopA == << "a", "." >> \o DOMAIN_
ShopB == << "b", "." >> \o DOMAIN_
ShopBad == << "e", ".", "c", "o", "m" >>
Shops == { ShopA, ShopB, ShopBad }

\* crypto.randomBytes(12).toString('hex'), or pseudoRandomBytes when it
\* throws: some string of hexadecimal digits either way
Nonces == { << "a", "1" >>, << "b", "2" >> }

StartQueries == { (K_shop :> Str(shop)) : shop \in Shops }

Fields(shop, state) ==
  (K_code :> Str(<< "c" >>)) @@ (K_timestamp :> Str(<< "1" >>)) @@
  (K_state :> Str(state)) @@ (K_shop :> Str(shop))

\* the query Shopify signs with `secret`
Signed(secret, fields) ==
  fields @@ (K_hmac :> Str(HmacDigest(secret, IntegrityMessage(fields))))

Without(query, key) == [k \in DOMAIN query \ {key} |-> query[k]]

GoodQuery == Signed(appSecret, Fields(ShopA, << "a", "1" >>))

CallbackQueries ==
  { Signed(secret, Fields(shop, state)) :
      secret \in {appSecret, wrongSecret}, shop \in Shops, state \in Nonces }
  \cup { Without(GoodQuery, key) :
           key \in {K_code, K_hmac, K_timestamp, K_state, K_shop} }
  \cup { [GoodQuery EXCEPT ![K_code] = Str(<<>>)],
         [GoodQuery EXCEPT ![K_timestamp] = Arr] }

Paths == { authPath, authCallbackPath, otherPath }

Queries(path) ==
  IF path = authPath THEN StartQueries
  ELSE IF path = authCallbackPath THEN CallbackQueries
  ELSE { <<>>, GoodQuery }

bodyToken == << "{", "access_token", ":", "T", "}" >>
bodyEmptyToken == << "{", "access_token", ":", "}" >>
bodyNoToken == << "{", "}" >>
bodyHtml == << "<", "html", ">" >>

\* what request.post hands to its callback: (err, body)
PostReplies ==
  { [err |-> transportError, body |-> Undefined] }
  \cup { [err |-> Null, body |-> Str(text)] :
           text \in {bodyToken, bodyEmptyToken, bodyNoToken, bodyHtml} }
  \cup { [err |-> Null, body |-> Object(Str(<< "T" >>))] }

(***************************************************************************)
(* The actions: a request enters the middleware, or a collaborator calls   *)
(* the callback it was given                                               *)
(***************************************************************************)
Finished(r) == req[r].pc \in {"idle", "passed", "redirected", "succeeded", "failed", "threw"}

Init ==
  /\ options \in Options
  /\ cache = <<>>
  /\ req = [r \in {"r1"} |-> NewRequest("", <<>>)]

\* a request enters the middleware
Request(r) ==
  /\ Finished(r)
  /\ \E path \in Paths :
       \E query \in Queries(path) :
         LET out == Middleware(options, cache, NewRequest(path, query))
         IN /\ req' = [req EXCEPT ![r] = out.req]
            /\ cache' = out.cache
  /\ UNCHANGED options

\* the shop resolver calls back, with an error or with the shop of the query
ShopDone(r) ==
  /\ req[r].pc = "shop"
  /\ \E err \in {Null, shopResolveError}, nonce \in Nonces :
       LET shop == IF Truthy(err) THEN <<>> ELSE req[r].query[K_shop].v
           out == ShopCallback(options, cache, req[r], err, shop, nonce)
       IN /\ req' = [req EXCEPT ![r] = out.req]
          /\ cache' = out.cache
  /\ UNCHANGED options

\* the onPermission hook calls the function it was given
Proceed(r) ==
  /\ req[r].pc = "permission"
  /\ req' = [req EXCEPT ![r] = PermissionCallback(req[r])]
  /\ UNCHANGED << options, cache >>

\* request.post calls back
PostDone(r) ==
  /\ req[r].pc = "post"
  /\ \E reply \in PostReplies :
       LET out == PostCallback(reply.err, reply.body)
           r0 == [req[r] EXCEPT !.postReplies = Append(@, reply)]
       IN req' = [req EXCEPT ![r] =
                    IF out.thrown # ""
                    THEN [r0 EXCEPT !.pc = "threw", !.thrown = out.thrown]
                    ELSE ExchangeCallback(options, r0, out.cb[1])]
  /\ UNCHANGED << options, cache >>

\* the onAuth hook calls done
AuthDone(r) ==
  /\ req[r].pc = "onAuth"
  /\ \E err \in {Undefined, theError} :
       req' = [req EXCEPT ![r] = AuthCallback(options, req[r], err)]
  /\ UNCHANGED << options, cache >>

\* time passes
Tick ==
  /\ CacheTick(cache) # cache
  /\ cache' = CacheTick(cache)
  /\ UNCHANGED << options, req >>

Next ==
  \/ \E r \in Reqs : Request(r)
  \/ \E r \in Reqs : ShopDone(r)
  \/ \E r \in Reqs : Proceed(r)
  \/ \E r \in Reqs : PostDone(r)
  \/ \E r \in Reqs : AuthDone(r)
  \/ Tick

Spec == Init /\ [][Next]_vars

(***************************************************************************)
(* Properties                                                              *)
(***************************************************************************)
RequiredKeys == { K_code, K_hmac, K_timestamp, K_state, K_shop }

\* the query carries every required parameter
CarriesRequired(query) == \A key \in RequiredKeys : Truthy(Prop(query, key))

\* in this step request r enters the middleware
Arrives(r) == Finished(r) /\ req'[r] # req[r]

IsCallback(r) == req[r].path = authCallbackPath
IsStart(r) == req[r].path = authPath

\* C1: a callback that carries all required parameters while the value the
\* cache returns for params.shop is not equal to params.state (absent,
\* expired and evicted entries included) is over when the middleware returns:
\* the error hook was called exactly once, onAuth was not called and no
\* token exchange was started.
C1_StateMismatchRejected ==
  [][\A r \in Reqs :
       ( /\ Arrives(r)
         /\ req'[r].path = authCallbackPath
         /\ CarriesRequired(req'[r].query)
         /\ ~StrictEq(CacheGet(cache, Prop(req'[r].query, K_shop)),
                      Prop(req'[r].query, K_state)) )
       => /\ Len(req'[r].onErrorArgs) = 1
          /\ req'[r].onAuthArgs = <<>>
          /\ req'[r].posts = <<>>
          /\ req'[r].pc = "failed"]_vars

\* a callback was rejected for its state while the cache holds another,
\* fresh nonce for its shop
C1_Witness ==
  \E r \in Reqs :
    /\ IsCallback(r) /\ CarriesRequired(req[r].query)
    /\ Len(req[r].onErrorArgs) = 1
    /\ req[r].onErrorArgs[1][1] = stateErr
    /\ CacheGet(cache, req[r].query[K_shop]).t = "string"
    /\ CacheGet(cache, req[r].query[K_shop]) # req[r].query[K_state]

\* the exchange handed a non-empty token to the middleware's callback
GotToken(r) ==
  /\ IsCallback(r)
  /\ Len(req[r].cbArgs) = 1
  /\ Len(req[r].cbArgs[1]) = 2
  /\ ~Truthy(req[r].cbArgs[1][1])
  /\ Truthy(req[r].cbArgs[1][2])

\* onAuth called done without an error
DoneOk(r) == Len(req[r].doneArgs) = 1 /\ ~Truthy(req[r].doneArgs[1][1])

C2_AfterToken(r) ==
  GotToken(r) =>
    /\ req[r].onAuthArgs =
         << << "req", "res", req[r].query[K_shop].v, req[r].cbArgs[1][2], "done" >> >>
    /\ req[r].cbArgs[1][2].t = "string" /\ req[r].cbArgs[1][2].v # <<>>
    /\ req[r].doneArgs = <<>> =>
         req[r].redirects = <<>> /\ req[r].onErrorArgs = <<>> /\ req[r].pc = "onAuth"
    /\ DoneOk(r) =>
         /\ req[r].redirects = << Href(authSuccessUrl) >>
         /\ req[r].onErrorArgs = <<>>
         /\ req[r].pc = "succeeded"

C3_AuthErrorGoesToErrorHook ==
  \A r \in Reqs :
    (Len(req[r].doneArgs) = 1 /\ Truthy(req[r].doneArgs[1][1])) =>
      /\ Len(req[r].onErrorArgs) = 1
      /\ Len(req[r].onErrorArgs[1]) = 4
      /\ req[r].onErrorArgs[1] = << req[r].doneArgs[1][1], "req", "res", "next" >>
      /\ \A i \in 1..Len(req[r].redirects) :
           req[r].redirects[i] # Href(authSuccessUrl)

\* onAuth reported theError and the error hook received it
C3_Witness ==
  \E r \in Reqs :
    /\ req[r].doneArgs = << << theError >> >>
    /\ req[r].onErrorArgs = << << theError, "req", "res", "next" >> >>

\* C4: a callback with all required parameters and the stored state whose
\* integrity check returns false is over when the middleware returns: the
\* error hook was called exactly once with four arguments, the first an
\* Error; onAuth was not called; no exchange was started; and the default
\* error hook has redirected to authFailUrl.
C4_IntegrityFailureRejected ==
  [][\A r \in Reqs :
       ( /\ Arrives(r)
         /\ req'[r].path = authCallbackPath
         /\ CarriesRequired(req'[r].query)
         /\ StrictEq(CacheGet(cache, Prop(req'[r].query, K_shop)),
                     Prop(req'[r].query, K_state))
         /\ ~IntegrityThrows(req'[r].query)
         /\ ~checkIntegrity(appSecret, req'[r].query) )
       => /\ Len(req'[r].onErrorArgs) = 1
          /\ Len(req'[r].onErrorArgs[1]) = 4
          /\ req'[r].onErrorArgs[1][1].t = "Error"
          /\ req'[r].onAuthArgs = <<>>
          /\ req'[r].posts = <<>>
          /\ req'[r].pc = "failed"
          /\ ~options.onError => req'[r].redirects = << Href(authFailUrl) >>]_vars

\* a callback signed with another secret was sent to authFailUrl by the
\* default error hook
C4_Witness ==
  \E r \in Reqs :
    /\ IsCallback(r)
    /\ ~options.onError
    /\ req[r].onErrorArgs = << << integrityErr, "req", "res", "next" >> >>
    /\ req[r].redirects = << Href(authFailUrl) >>
    /\ req[r].query[K_hmac] # Str(HmacDigest(appSecret, IntegrityMessage(req[r].query)))

\* the exchange handed an error to the middleware's callback
ExchangeFailed(r) ==
  /\ IsCallback(r)
  /\ Len(req[r].cbArgs) = 1
  /\ Truthy(req[r].cbArgs[1][1])

\* C5: when the token exchange reports a failure to the middleware, the error
\* hook is called exactly once with a defined error, the one the exchange
\* reported; onAuth is not called; and the default error hook logs the error
\* and redirects to authFailUrl.
C5_ExchangeFailureGoesToErrorHook ==
  \A r \in Reqs :
    ExchangeFailed(r) =>
      /\ Len(req[r].onErrorArgs) = 1
      /\ Truthy(req[r].onErrorArgs[1][1])
      /\ req[r].onErrorArgs[1][1] = req[r].cbArgs[1][1]
      /\ req[r].onAuthArgs = <<>>
      /\ ~options.onError =>
           /\ req[r].logged = << req[r].cbArgs[1][1] >>
           /\ req[r].redirects = << Href(authFailUrl) >>

\* the replies of request.post that the exchange has to report as a failure
IsFailureReply(reply) ==
  \/ Truthy(reply.err)
  \/ reply.body \in { Str(bodyHtml), Str(bodyEmptyToken), Str(bodyNoToken) }

\* C6: for every outcome of the POST, exchangeCodeForToken calls cb exactly
\* once: with an error and no token on a transport error, on a body that is
\* no JSON and on a body without a non-empty access_token, and with
\* (null, access_token) otherwise; and it sends the POST once.
C6_ExchangeCallsBackOnce ==
  \A r \in Reqs :
    Len(req[r].postReplies) = 1 =>
      /\ Len(req[r].posts) = 1
      /\ Len(req[r].cbArgs) = 1
      /\ IF IsFailureReply(req[r].postReplies[1])
         THEN /\ Truthy(req[r].cbArgs[1][1])
              /\ Len(req[r].cbArgs[1]) = 1
         ELSE /\ req[r].cbArgs[1] = << Null, Str(<< "T" >>) >>

\* in this step the shop resolver of request r calls back with a shop
Resolves(r) ==
  /\ req[r].pc = "shop"
  /\ Len(req'[r].shopReplies) = 1
  /\ ~Truthy(req'[r].shopReplies[1][1])

\* C7: without an onPermission hook, when the shop of a start request
\* resolves there is exactly one redirect: to https, the resolved shop as
\* host, /admin/oauth/authorize, with the query parameters client_id, scope
\* (the scopes joined by commas), redirect_uri (baseUrl resolved against
\* authCallbackPath) and state, where state is the nonce the cache returns
\* for that shop when the redirect is issued.
C7_StartRedirectsToAuthorize ==
  [][\A r \in Reqs :
       (Resolves(r) /\ ~options.onPermission) =>
         /\ Len(req'[r].redirects) = 1
         /\ req'[r].pc = "redirected"
         /\ LET target == req'[r].redirects[1]
                shop == req'[r].shopReplies[1][2]
            IN /\ target.protocol = "https"
               /\ target.host = shop
               /\ target.pathname = "/admin/oauth/authorize"
               /\ DOMAIN target.query = {"client_id", "scope", "redirect_uri", "state"}
               /\ target.query.client_id = appKey
               /\ target.query.scope = << "r", "_", "p", ",", "w", "_", "p" >>
               /\ target.query.redirect_uri = "http://localhost:8000/auth/callback"
               /\ CacheGet(cache', Str(shop)) = Str(target.query.state)]_vars

\* a start request was redirected to the authorize URL of its shop
C7_Witness ==
  \E r \in Reqs :
    /\ IsStart(r) /\ ~options.onPermission
    /\ req[r].pc = "redirected"
    /\ Len(req[r].redirects) = 1
    /\ req[r].redirects[1].host = ShopB
    /\ CacheGet(cache, Str(ShopB)) = Str(req[r].redirects[1].query.state)

\* the shop resolver of r has called back with a shop
Resolved(r) ==
  /\ IsStart(r)
  /\ Len(req[r].shopReplies) = 1
  /\ ~Truthy(req[r].shopReplies[1][1])

C8_Hook(r) ==
  (Resolved(r) /\ options.onPermission) =>
    /\ Len(req[r].onPermissionArgs) = 1
    /\ Len(req[r].onPermissionArgs[1]) = 3
    /\ req[r].onPermissionArgs[1][1] = req[r].shopReplies[1][2]
    /\ req[r].onPermissionArgs[1][3] = "proceed"
    /\ \E i, j \in 1..Len(req[r].steps) :
         i < j /\ req[r].steps[i] = "cache.set" /\ req[r].steps[j] = "onPermission"
    /\ IF \E i \in 1..Len(req[r].steps) : req[r].steps[i] = "proceed"
       THEN req[r].redirects = << req[r].onPermissionArgs[1][2] >>
       ELSE req[r].redirects = <<>> /\ req[r].logged = <<>> /\ req[r].nextArgs = <<>>

\* C8: with an onPermission hook, when the shop of a start request resolves
\* the hook is called exactly once with (shop, redirectUrl, proceed), after
\* the nonce was stored (the cache returns the state of redirectUrl for the
\* shop at that moment); nothing is answered until proceed is called, and
\* then the one redirect goes to the redirectUrl the hook was given.
C8_PermissionHook ==
  [][\A r \in Reqs :
       /\ C8_Hook(r)'
       /\ (Resolves(r) /\ options.onPermission) =>
            CacheGet(cache', Str(req'[r].shopReplies[1][2]))
              = Str(req'[r].onPermissionArgs[1][2].query.state)
       /\ (req[r].pc = "permission" /\ req'[r] # req[r]) =>
            req'[r].steps = Append(req[r].steps, "proceed") \o << "redirect" >>]_vars

\* proceed was called and the redirect went to the URL the hook was given
C8_Witness ==
  \E r \in Reqs :
    /\ Resolved(r) /\ options.onPermission
    /\ req[r].pc = "redirected"
    /\ req[r].redirects = << req[r].onPermissionArgs[1][2] >>
    /\ req[r].redirects[1].query.state = req[r].nonce

\* C9: a request for a path that is neither authPath nor authCallbackPath is
\* passed on: next is called exactly once, without an argument; the shop
\* resolver, onPermission, onAuth and the error hook are not called; nothing
\* is answered; and the cache is as it was.
C9_OtherPathsPassThrough ==
  [][\A r \in Reqs :
       ( /\ Arrives(r)
         /\ req'[r].path # authPath
         /\ req'[r].path # authCallbackPath )
       => /\ req'[r].nextArgs = << <<>> >>
          /\ req'[r].shopCalls = 0
          /\ req'[r].onPermissionArgs = <<>>
          /\ req'[r].onAuthArgs = <<>>
          /\ req'[r].onErrorArgs = <<>>
          /\ req'[r].redirects = <<>>
          /\ req'[r].posts = <<>>
          /\ req'[r].pc = "passed"
          /\ cache' = cache]_vars

\* a request for another path was passed on while the cache holds a nonce
C9_Witness ==
  \E r \in Reqs :
    /\ req[r].path = otherPath
    /\ req[r].query = GoodQuery
    /\ req[r].pc = "passed"
    /\ cache # <<>>

\* the steps of the callback branch, in the order of the claim
CheckOrder == << "params", "cache.get", "checkIntegrity", "checkShopHostname",
                 "post", "onAuth" >>

ChecksRun(r) ==
  SelectSeq(req[r].steps,
            LAMBDA s : \E i \in 1..Len(CheckOrder) : CheckOrder[i] = s)

\* the error of the check that was the last to run for the finished request r
ErrorOfLastCheck(r) ==
  LET last == ChecksRun(r)[Len(ChecksRun(r))]
      err == req[r].onErrorArgs[1][1]
  IN CASE last = "params" -> err = paramErr(req[r].query)
       [] last = "cache.get" -> err = stateErr
       [] last = "checkIntegrity" -> err = integrityErr
       [] last = "checkShopHostname" -> err = hostnameErr(req[r].query[K_shop].v)
       [] last = "post" -> Truthy(err)
       [] last = "onAuth" -> Len(req[r].doneArgs) = 1 /\ err = req[r].doneArgs[1][1]

\* C10: the callback branch runs presence of the parameters, state,
\* signature, hostname, exchange and onAuth in this order; a callback that
\* misses a required parameter runs the first check only; and a callback that
\* is over either succeeded or had the error hook called exactly once, with
\* the error of the last check it ran.
C10_ChecksInOrder ==
  \A r \in Reqs :
    (IsCallback(r) /\ \A key \in DOMAIN req[r].query : req[r].query[key].t = "string") =>
      /\ ChecksRun(r) = SubSeq(CheckOrder, 1, Len(ChecksRun(r)))
      /\ ~CarriesRequired(req[r].query) => ChecksRun(r) = << "params" >>
      /\ Finished(r) =>
           \/ req[r].pc = "succeeded" /\ req[r].onErrorArgs = <<>>
           \/ /\ Len(req[r].onErrorArgs) = 1
              /\ ErrorOfLastCheck(r)

\* request r is a callback that passed the state check
PassedStateCheck(r) ==
  /\ IsCallback(r)
  /\ \E i \in 1..Len(req[r].steps) : req[r].steps[i] = "checkIntegrity"

\* C11: a nonce is accepted by the state check once: when a callback that
\* passed the state check is over and the next request is a callback that
\* carries the same shop and the same state (no start request came in
\* between), that callback fails the state check and goes to the error hook.
C11_NonceAcceptedOnce ==
  [][\A r \in Reqs :
       ( /\ PassedStateCheck(r)
         /\ Arrives(r)
         /\ req'[r].path = authCallbackPath
         /\ CarriesRequired(req'[r].query)
         /\ req'[r].query[K_shop] = req[r].query[K_shop]
         /\ req'[r].query[K_state] = req[r].query[K_state] )
       => /\ Len(req'[r].onErrorArgs) = 1
          /\ req'[r].onErrorArgs[1][1] = stateErr
          /\ req'[r].posts = <<>>]_vars

\* the entries of the cache, whatever their recency
Entries(c) == { c[i] : i \in 1..Len(c) }

\* C12: the cache is a bounded, time-limited map.  Right after a start
\* request has stored the nonce of its shop, get(shop) returns that nonce; the
\* cache never holds more than max entries, and when a new key is stored into
\* a full cache the least recently used key is gone while every other entry
\* remains; get returns absent for an entry that is older than maxAge; and a
\* callback for a shop whose entry is absent (never stored, expired or
\* evicted) ends as it does with an empty cache: the error hook receives the
\* state error.
C12_CacheBoundedTimeLimited ==
  [][/\ \A r \in Reqs :
          Resolves(r) =>
            LET shop == req'[r].shopReplies[1][2]
            IN /\ CacheGet(cache', Str(shop)) = Str(req'[r].nonce)
               /\ (~CacheHas(cache, shop) /\ Len(cache) = Max) =>
                    /\ ~CacheHas(cache', cache[Len(cache)].key)
                    /\ \A i \in 1..(Len(cache) - 1) : cache[i] \in Entries(cache')
     /\ Len(cache') <= Max
     /\ \A e \in Entries(cache') :
          e.age > MaxAge => CacheGet(cache', Str(e.key)) = Undefined
     /\ \A r \in Reqs :
          ( /\ Arrives(r)
            /\ req'[r].path = authCallbackPath
            /\ CarriesRequired(req'[r].query)
            /\ CacheGet(cache, req'[r].query[K_shop]) = Undefined )
          => /\ req'[r] = Middleware(options, <<>>,
                                     NewRequest(req'[r].path, req'[r].query)).req
             /\ Len(req'[r].onErrorArgs) = 1
             /\ req'[r].onErrorArgs[1][1] = stateErr]_vars

\* the cache is full, one of its entries has expired, and a callback for a
\* shop that had its nonce stored before (the start request of the witness
\* ran for it) was rejected for its state, the entry being gone
C12_Witness ==
  \E r \in Reqs :
    /\ IsCallback(r) /\ CarriesRequired(req[r].query)
    /\ req[r].onErrorArgs = << << stateErr, "req", "res", "next" >> >>
    /\ ~CacheHas(cache, req[r].query[K_shop].v)
    /\ Len(cache) = Max
    /\ \E e \in Entries(cache) : e.age > MaxAge

\* the string sub occurs in the string s
Contains(s, sub) ==
  \E i \in 1..(Len(s) - Len(sub) + 1) : SubSeq(s, i, i + Len(sub) - 1) = sub

\* the URL is the success or the fail URL, or an authorize URL whose host and
\* query (client_id, scope, redirect_uri and state, nothing else) hold no
\* occurrence of the application secret
SecretFree(target) ==
  \/ target \in { Href(authSuccessUrl), Href(authFailUrl) }
  \/ /\ target.pathname = "/admin/oauth/authorize"
     /\ DOMAIN target.query = {"client_id", "scope", "redirect_uri", "state"}
     /\ target.query.redirect_uri = urlResolve(baseUrl, authCallbackPath)
     /\ \A part \in { target.host, target.query.client_id,
                       target.query.scope, target.query.state } :
          ~Contains(part, appSecret)

\* C13: no redirect of a request carries the application secret; the token
\* exchange is started only by an arriving callback, once, with the secret
\* as the client_secret form field, and it is sent to the host params.shop
\* only when the state check, the signature check and the hostname check
\* have passed for that request.
C13_SecretStaysPrivate ==
  [][\A r \in Reqs :
       /\ \A i \in 1..Len(req'[r].redirects) : SecretFree(req'[r].redirects[i])
       /\ req'[r].posts # req[r].posts => Arrives(r)
       /\ (Arrives(r) /\ req'[r].posts # <<>>) =>
            /\ Len(req'[r].posts) = 1
            /\ req'[r].posts[1].form.client_secret = appSecret
            /\ DOMAIN req'[r].posts[1].form = {"client_id", "client_secret", "code"}
            /\ req'[r].posts[1].url.host = req'[r].query[K_shop].v
            /\ req'[r].posts[1].url.protocol = "https"
            /\ StrictEq(CacheGet(cache, req'[r].query[K_shop]), req'[r].query[K_state])
            /\ req'[r].query[K_hmac] =
                 Str(HmacDigest(appSecret, IntegrityMessage(req'[r].query)))
            /\ checkShopHostname(req'[r].posts[1].url.host)]_vars

\* a callback has sent the secret as a form field to the shop it checked,
\* and the redirect that answered it is the bare success URL
C13_Witness ==
  \E r \in Reqs :
    /\ IsCallback(r)
    /\ Len(req[r].posts) = 1
    /\ req[r].posts[1].form.client_secret = appSecret
    /\ req[r].posts[1].url.host = ShopB
    /\ req[r].redirects = << Href(authSuccessUrl) >>

(***************************************************************************)
(* The static functions called on their own: ShopifyAuth.checkIntegrity    *)
(* and ShopifyAuth.checkShopHostname are members of the exported object.   *)
(* A slot of req then holds one call: its arguments and what it returned.  *)
(***************************************************************************)
\* the longest value and hostname prefix that is enumerated; keys are one
\* character shorter
MaxLen == 2

\* the strings over the alphabet of at most n characters
Strings(alphabet, n) == UNION { [1..k -> alphabet] : k \in 0..n }

\* the characters the escaping is about, and one it leaves alone
ParamChars == { "%", "&", "=", "a" }

\* a query of one enumerated parameter, and the parameters of a callback
\* with one enumerated value
ParamSets(n) ==
  { (key :> Str(val)) :
      key \in Strings(ParamChars, n - 1) \ {<<>>}, val \in Strings(ParamChars, n) }
  \cup { [Fields(ShopA, << "a", "1" >>) EXCEPT ![K_code] = Str(val)] :
           val \in Strings(ParamChars, n - 1) }

\* every occurrence of the character c replaced (the documented algorithm
\* of the signature, which the sender of a callback applies)
RECURSIVE ReplaceAll(_, _, _)
ReplaceAll(s, c, rep) ==
  IF s = <<>> THEN <<>>
  ELSE (IF Head(s) = c THEN rep ELSE <<Head(s)>>) \o ReplaceAll(Tail(s), c, rep)

CanonicalEscape(s) ==
  ReplaceAll(ReplaceAll(ReplaceAll(s, "%", <<"%", "2", "5">>),
                        "&", <<"%", "2", "6">>),
             "=", <<"%", "3", "D">>)

CanonicalMessage(params) ==
  LET keys == SignedKeys(params)
  IN Join([i \in 1..Len(keys) |->
             CanonicalEscape(keys[i]) \o <<"=">> \o CanonicalEscape(params[keys[i]].v)],
          <<"&">>)

\* the hmac parameters a call is tried with: the digest of the canonical
\* message under the real and under another secret, and the digest of the
\* message checkIntegrity builds
Hmacs(params) ==
  { HmacDigest(appSecret, CanonicalMessage(params)),
    HmacDigest(wrongSecret, CanonicalMessage(params)),
    HmacDigest(appSecret, IntegrityMessage(params)) }

\* the hostnames a call is tried with: those of the documentation and the
\* enumerated prefixes of some endings
HostChars == { "s", ".", "/", " ", "A" }

HostEndings ==
  { DOMAIN_, <<".">> \o DOMAIN_, SubSeq(DOMAIN_, 2, Len(DOMAIN_)),
    DOMAIN_ \o <<"/", "x">>, DOMAIN_ \o <<".">>, <<>>,
    << "o", "t", "h", "e", "r", "d", "o", "m", "a", "i", "n", ".", "c", "o", "m" >> }

Hostnames(n) ==
  { prefix \o ending : prefix \in Strings(HostChars, n), ending \in HostEndings }
  \cup { << "s", "h", "o", "p", "." >> \o ending : ending \in HostEndings }
  \cup { << "s", " ", "h", "o", "p", "." >> \o DOMAIN_ }

Call(fn, params, hostname) ==
  [ pc |-> "called", fn |-> fn, secret |-> appSecret, params |-> params,
    hostname |-> hostname, returned |-> FALSE ]

Calls(n) ==
  UNION { { Call("checkIntegrity", params @@ (K_hmac :> Str(hmac)), <<>>) :
              hmac \in Hmacs(params) } : params \in ParamSets(n) }
  \cup { Call("checkShopHostname", <<>>, hostname) : hostname \in Hostnames(n) }

FnInit ==
  /\ options \in { o \in Options : ~o.onPermission }
  /\ cache = <<>>
  /\ \E call \in Calls(MaxLen) : req = [r \in {"call"} |-> call]

\* ShopifyAuth.checkIntegrity(appSecret, params) returns
CheckIntegrityReturns(r) ==
  /\ req[r].pc = "called" /\ req[r].fn = "checkIntegrity"
  /\ req' = [req EXCEPT ![r].pc = "returned",
                         ![r].returned = checkIntegrity(req[r].secret, req[r].params)]
  /\ UNCHANGED << options, cache >>

\* ShopifyAuth.checkShopHostname(hostname) returns
CheckShopHostnameReturns(r) ==
  /\ req[r].pc = "called" /\ req[r].fn = "checkShopHostname"
  /\ req' = [req EXCEPT ![r].pc = "returned",
                         ![r].returned = checkShopHostname(req[r].hostname)]
  /\ UNCHANGED << options, cache >>

FnNext ==
  \/ \E r \in Reqs : CheckIntegrityReturns(r)
  \/ \E r \in Reqs : CheckShopHostnameReturns(r)

FnSpec == FnInit /\ [][FnNext]_vars

\* the call in slot r has returned
Returned(r, fn) == req[r].pc = "returned" /\ req[r].fn = fn

\* C14: checkIntegrity(secret, params) returns true exactly when params.hmac
\* is the HMAC, keyed by secret, of the canonical message: the keys other
\* than hmac and signature in ascending order, every %, then every &, then
\* every = encoded in each key and in each value, the pairs key=value joined
\* by &.  So a query signed with the canonical algorithm and the real secret
\* verifies, and one signed with another secret does not.
C14_IntegrityIsCanonicalHmac ==
  \A r \in Reqs :
    Returned(r, "checkIntegrity") =>
      req[r].returned =
        (req[r].params[K_hmac] =
           Str(HmacDigest(req[r].secret, CanonicalMessage(req[r].params))))

\* the hostname ends with the platform domain
EndsWithDomain(hostname) ==
  \E prefix \in { SubSeq(hostname, 1, n) : n \in 0..Len(hostname) } :
    hostname = prefix \o DOMAIN_

Shop_ == << "s", "h", "o", "p", "." >>

\* C16: checkShopHostname(hostname) returns true exactly when every
\* character of the hostname is one of [0-9a-zA-Z.-] and the hostname ends
\* with myshopify.com: shop.myshopify.com is valid; shop.myshopify.com/x,
\* shop.otherdomain.com and a hostname with a space in it are not.
C16_HostnameValidator ==
  \A r \in Reqs :
    Returned(r, "checkShopHostname") =>
      LET hostname == req[r].hostname
      IN /\ req[r].returned =
              ( /\ \A i \in 1..Len(hostname) : hostname[i] \in ValidChars
                /\ EndsWithDomain(hostname) )
         /\ hostname = Shop_ \o DOMAIN_ => req[r].returned
         /\ hostname = Shop_ \o DOMAIN_ \o << "/", "x" >> => ~req[r].returned
         /\ hostname = << "s", " ", "h", "o", "p", "." >> \o DOMAIN_ => ~req[r].returned
         /\ hostname = Shop_ \o << "o", "t", "h", "e", "r", "d", "o", "m", "a",
                                   "i", "n", ".", "c", "o", "m" >> => ~req[r].returned

\* a hostname that ends with the domain was refused for one of its
\* characters
C16_Witness ==
  \E r \in Reqs :
    /\ Returned(r, "checkShopHostname")
    /\ ~req[r].returned
    /\ EndsWithDomain(req[r].hostname)
    /\ req[r].hostname[2] = " "

\* the query holds a signed parameter whose value is no string
HasNonString(query) ==
  \E key \in DOMAIN query \ {K_hmac, K_signature} : query[key].t # "string"

\* C15: checkIntegrity returns false and raises nothing when a parameter
\* value is no string; so a callback that carries such a value, all required
\* parameters and the stored state ends at the error hook with the
\* integrity error, and no exception leaves the middleware.
C15_MalformedValueIsIntegrityFailure ==
  [][\A r \in Reqs :
       ( /\ Arrives(r)
         /\ req'[r].path = authCallbackPath
         /\ CarriesRequired(req'[r].query)
         /\ StrictEq(CacheGet(cache, Prop(req'[r].query, K_shop)),
                     Prop(req'[r].query, K_state))
         /\ HasNonString(req'[r].query) )
       => /\ req'[r].thrown = ""
          /\ Len(req'[r].onErrorArgs) = 1
          /\ req'[r].onErrorArgs[1][1] = integrityErr]_vars

\* the callback r is over, onAuth having called done without an error
Succeeded(r) == IsCallback(r) /\ DoneOk(r) /\ Finished(r)

FairSpec ==
  /\ Spec
  /\ \A r \in {"r1"} :
       /\ WF_vars(ShopDone(r))
       /\ WF_vars(Proceed(r))
       /\ WF_vars(PostDone(r))
       /\ WF_vars(AuthDone(r))

\* r is a request for authPath or authCallbackPath
IsAuthRequest(r) == IsStart(r) \/ IsCallback(r)

\* the request is over with one answer: the one redirect of the middleware
\* and no call of the error hook, or one call of the error hook, which
\* returned (the default hook having answered with its redirect to
\* authFailUrl) and no redirect of the middleware
Outcome(r) ==
  \/ /\ req[r].pc \in {"redirected", "succeeded"}
     /\ Len(req[r].redirects) = 1
     /\ req[r].onErrorArgs = <<>>
  \/ /\ req[r].pc = "failed"
     /\ Len(req[r].onErrorArgs) = 1
     /\ req[r].redirects \in { <<>>, << Href(authFailUrl) >> }

\* the request waits for a collaborator to call the function it was given,
\* which FairSpec says it does
Waiting(r) == req[r].pc \in {"shop", "permission", "post", "onAuth"}

\* C19: when the shop resolver, onPermission, the token-exchange POST and
\* onAuth each call their continuation, every request for authPath or
\* authCallbackPath comes to an end, succeeded or failed, in which either
\* the middleware has redirected once or the error hook was called once,
\* whatever the outcome of the token exchange, a transport error included:
\* a request (its parameters strings) is never at rest without such an end,
\* it has reached one or it waits for a continuation that is going to be
\* called.
C19_EveryRequestEnds ==
  \A r \in Reqs :
    (IsAuthRequest(r) /\ ~HasNonString(req[r].query)) =>
      (Outcome(r) \/ Waiting(r))

(***************************************************************************)
(* Two requests in progress at a time: the callbacks of one request run    *)
(* between those of the other, in any order, on the one cache.  The        *)
(* requests are those of two shops that start and come back with a signed  *)
(* callback, with an onPermission hook in place; the two shops fit into    *)
(* the cache and no entry grows older than maxAge.                         *)
(***************************************************************************)
FlowShops == { ShopA, ShopB }

FlowQueries(path) ==
  IF path = authPath
  THEN { (K_shop :> Str(shop)) : shop \in FlowShops }
  ELSE { Signed(appSecret, Fields(shop, state)) :
           shop \in FlowShops, state \in Nonces }

\* the token exchange succeeds or fails in transport
FlowPostReplies ==
  { [err |-> transportError, body |-> Undefined],
    [err |-> Null, body |-> Str(bodyToken)] }

FlowInit ==
  /\ options \in { o \in Options : o.onPermission /\ ~o.onError }
  /\ cache = <<>>
  /\ req = [r \in {"r1", "r2"} |-> NewRequest("", <<>>)]

\* a request of a flow enters the middleware
FlowRequest(r) ==
  /\ Finished(r)
  /\ \E path \in { authPath, authCallbackPath } :
       \E query \in FlowQueries(path) :
         LET out == Middleware(options, cache, NewRequest(path, query))
         IN /\ req' = [req EXCEPT ![r] = out.req]
            /\ cache' = out.cache
  /\ UNCHANGED options

\* request.post calls back
FlowPostDone(r) ==
  /\ req[r].pc = "post"
  /\ \E reply \in FlowPostReplies :
       LET out == PostCallback(reply.err, reply.body)
           r0 == [req[r] EXCEPT !.postReplies = Append(@, reply)]
       IN req' = [req EXCEPT ![r] =
                    IF out.thrown # ""
                    THEN [r0 EXCEPT !.pc = "threw", !.thrown = out.thrown]
                    ELSE ExchangeCallback(options, r0, out.cb[1])]
  /\ UNCHANGED << options, cache >>

FlowNext ==
  \/ \E r \in Reqs : FlowRequest(r)
  \/ \E r \in Reqs : ShopDone(r)
  \/ \E r \in Reqs : Proceed(r)
  \/ \E r \in Reqs : FlowPostDone(r)
  \/ \E r \in Reqs : AuthDone(r)

FlowSpec == FlowInit /\ [][FlowNext]_vars

\* the entry of the cache for one shop, if any
ShopView(c, shop) == SelectSeq(c, LAMBDA e : e.key = shop)

\* the shop a request is about
ShopOf(r) == Prop(r.query, K_shop).v

\* slot s holds the start request of the flow of (shop, state): it was
\* redirected to the authorize URL of the shop with that state
FlowStart(s, shop, state) ==
  /\ IsStart(s)
  /\ req[s].pc = "redirected"
  /\ req[s].redirects = << authorizeUrl(shop, state) >>

\* what the middleware does with the request when its flow runs alone: the
\* cache holds the nonce of its start request and nothing else
Alone(request, shop, state) ==
  Middleware(options, << [key |-> shop, value |-> state, age |-> 0] >>,
             NewRequest(request.path, request.query)).req

\* each step of request r is what it is with no other shop in the cache, it
\* leaves the other request and the entries of the other shops alone, and
\* proceed redirects to the authorize URL with the nonce of its own request
StepsIndependent(r) ==
  /\ Arrives(r) =>
       req'[r] = Middleware(options, ShopView(cache, ShopOf(req'[r])),
                            NewRequest(req'[r].path, req'[r].query)).req
  /\ req'[r] # req[r] =>
       /\ \A s \in Reqs \ {r} : req'[s] = req[s]
       /\ \A shop \in FlowShops \ {ShopOf(req'[r])} :
            ShopView(cache', shop) = ShopView(cache, shop)
  /\ (req[r].pc = "permission" /\ req'[r] # req[r]) =>
       req'[r].redirects = << authorizeUrl(req[r].shop, req[r].nonce) >>

\* C18 as claimed: requests are independent under any interleaving, for
\* two shops and for one shop that starts a second flow while its first is
\* in progress: a callback that carries the shop and the state of the
\* redirect its start request was answered with is handled as when its flow
\* runs alone (the cache within its capacity and maxAge).
C18_FlowsIndependent ==
  [][\A r \in Reqs :
       /\ StepsIndependent(r)
       /\ \A s \in Reqs \ {r} :
            ( /\ Arrives(r)
              /\ req'[r].path = authCallbackPath
              /\ FlowStart(s, ShopOf(req'[r]), req'[r].query[K_state].v) )
            => req'[r] = Alone(req'[r], ShopOf(req'[r]), req'[r].query[K_state].v)]_vars

\* C18 as amended: flows of distinct shops are independent under any
\* interleaving; of the flows of one shop, the callback of the flow whose
\* nonce is the stored one is handled as when its flow runs alone, and the
\* callback of a flow whose nonce was replaced by a later start request of
\* the shop fails the state check.
C18_FlowsOfDistinctShops ==
  [][\A r \in Reqs :
       /\ StepsIndependent(r)
       /\ \A s \in Reqs \ {r} :
            ( /\ Arrives(r)
              /\ req'[r].path = authCallbackPath
              /\ FlowStart(s, ShopOf(req'[r]), req'[r].query[K_state].v) )
            => IF CacheGet(cache, req'[r].query[K_shop]) = req'[r].query[K_state]
               THEN /\ req'[r] = Alone(req'[r], ShopOf(req'[r]),
                                       req'[r].query[K_state].v)
                    /\ req'[r].pc = "post"
               ELSE /\ req'[r].onErrorArgs = << << stateErr, "req", "res", "next" >> >>
                    /\ req'[r].posts = <<>>]_vars

\* the flows of two shops in progress at once: the callback of one shop has
\* succeeded while the callback of the other waits for its token
C18_Witness ==
  \E r, s \in Reqs :
    /\ IsCallback(r) /\ ShopOf(req[r]) = ShopA /\ req[r].pc = "succeeded"
    /\ IsCallback(s) /\ ShopOf(req[s]) = ShopB /\ req[s].pc = "post"
    /\ CacheGet(cache, Str(ShopA)) = req[r].query[K_state]
    /\ CacheGet(cache, Str(ShopB)) = req[s].query[K_state]

\* in this step the callback given to the shop resolver of r, or the
\* proceed function of r, runs
ShopReplies(r) == req[r].pc = "shop" /\ req'[r] # req[r]
Proceeds(r) == req[r].pc = "permission" /\ req'[r] # req[r]

\* C20: the cache holds at most one nonce per shop, the one of the start
\* request that stored last: the value it returns for a shop changes only
\* when a start request of that shop resolves, and then to the nonce of that
\* request; a start request whose shop resolution fails stores no nonce and
\* leaves the cache as it is; a callback passes the state check exactly
\* when its state is the stored nonce of its shop, so after two interleaved
\* start requests of one shop the earlier nonce fails and the later one
\* passes; and proceed, however late, redirects with the nonce of its own
\* request, which is not the stored one when a later start has replaced it.
C20_OneNoncePerShop ==
  [][/\ \A i, j \in 1..Len(cache') : cache'[i].key = cache'[j].key => i = j
     /\ \A shop \in FlowShops :
          CacheGet(cache', Str(shop)) # CacheGet(cache, Str(shop)) =>
            \E r \in Reqs : Resolves(r) /\ req'[r].shop = shop
     /\ \A r \in Reqs :
          /\ Resolves(r) =>
               CacheGet(cache', Str(req'[r].shop)) = Str(req'[r].nonce)
          /\ (ShopReplies(r) /\ ~Resolves(r)) =>
               /\ cache' = cache
               /\ req'[r].nonce = <<>>
               /\ req'[r].redirects \in { <<>>, << Href(authFailUrl) >> }
          /\ (Arrives(r) /\ req'[r].path = authCallbackPath) =>
               ( (req'[r].onErrorArgs = << << stateErr, "req", "res", "next" >> >>)
                 <=> CacheGet(cache, req'[r].query[K_shop]) # req'[r].query[K_state] )
          /\ Proceeds(r) =>
               /\ cache' = cache
               /\ Len(req'[r].redirects) = 1
               /\ req'[r].redirects[1].query.state = req[r].nonce
               /\ req'[r].redirects[1].host = req[r].shop]_vars

\* two start requests of one shop were interleaved: the proceed of the
\* earlier one has redirected with its nonce while the cache holds the
\* nonce of the later one, which waits in its onPermission hook
C20_Witness ==
  \E r, s \in Reqs :
    /\ IsStart(r) /\ IsStart(s)
    /\ req[r].shop = ShopA /\ req[s].shop = ShopA
    /\ req[r].pc = "redirected" /\ req[s].pc = "permission"
    /\ req[r].nonce # req[s].nonce
    /\ req[r].redirects[1].query.state = req[r].nonce
    /\ CacheGet(cache, Str(ShopA)) = Str(req[s].nonce)

====
